---- MODULE Spec2Model ----
(***************************************************************************)
(* Model of src/src/external_models_mcp/server.py: the three tools         *)
(* ask_expert, compare_experts and draft_editor, the context reader        *)
(* _read_context_files, _resolve_model_name and _clean_code_block.         *)
(*                                                                         *)
(* A Python str is modelled as a sequence of tokens, each token a TLA+     *)
(* string: input data is written one character per token, a literal of     *)
(* the source is one token, and a long run of filler characters is one     *)
(* token whose length TokLen gives.  Concatenation is \o, so an f-string   *)
(* is the concatenation of its pieces.                                     *)
(*                                                                         *)
(* Every tool call is a process with a program counter; each action is one *)
(* I/O call of the source together with the pure code that follows it.     *)
(* Each I/O call may raise (any of ErrMsgs) wherever Python lets it raise. *)
(***************************************************************************)
EXTENDS Integers, Sequences, FiniteSets, TLC

VARIABLES fs, proc, cb

vars == <<fs, proc, cb>>

(* ------------------------------ bounds --------------------------------- *)

\* longest file_paths list _read_context_files is called with directly
MaxPaths == 3
\* longest context_files list a tool call is given
MaxCtx == 1
\* longest experts list compare_experts is given
MaxExperts == 2
\* longest string _clean_code_block is applied to in SpecClean
MaxLen == 6

(* ---------------------------- configuration ---------------------------- *)

MAX_FILE_SIZE_BYTES == 512 * 1024
MAX_TOTAL_CHARS == 400000
\* f.read(1024) of the binary probe
PEEK_BYTES == 1024

(* lower()/upper() on the characters the aliases of this model are made of *)
LowerChar(c) ==
    CASE c = "G" -> "g" [] c = "L" -> "l" [] c = "M" -> "m"
      [] c = "K" -> "k" [] c = "I" -> "i" [] OTHER -> c

UpperChar(c) ==
    CASE c = "g" -> "G" [] c = "l" -> "L" [] c = "m" -> "M"
      [] c = "k" -> "K" [] c = "i" -> "I" [] c = "z" -> "Z" [] OTHER -> c

Lower(s) == [j \in 1..Len(s) |-> LowerChar(s[j])]

Upper(s) == [j \in 1..Len(s) |-> UpperChar(s[j])]

IsSpace(c) == c \in {" ", "\n", "\t", "\r"}

RECURSIVE LStrip(_)
LStrip(s) == IF s # <<>> /\ IsSpace(Head(s)) THEN LStrip(Tail(s)) ELSE s

RECURSIVE RStrip(_)
RStrip(s) ==
    IF s # <<>> /\ IsSpace(s[Len(s)]) THEN RStrip(SubSeq(s, 1, Len(s) - 1)) ELSE s

Strip(s) == RStrip(LStrip(s))

\* The aliases of MODEL_ALIASES this model draws on, with their identifiers.
MODEL_ALIASES ==
    [a \in {<<"g", "l", "m">>, <<"k", "i", "m", "i">>} |->
        IF a = <<"g", "l", "m">> THEN <<"openrouter/zhipu/glm-4-flash">>
        ELSE <<"openrouter/moonshotai/kimi-k2">>]

ResolveModelName(alias) ==
    LET clean_alias == Strip(Lower(alias))
    IN  IF clean_alias \in DOMAIN MODEL_ALIASES THEN MODEL_ALIASES[clean_alias]
        ELSE alias

(* ------------------------------- text ---------------------------------- *)

\* a run of MAX_TOTAL_CHARS characters "x"
FILL_MAX == "x*MAX_TOTAL_CHARS"
\* a run of MAX_FILE_SIZE_BYTES + 1 characters "x"
FILL_HUGE == "x*(MAX_FILE_SIZE_BYTES+1)"
\* the byte 0
NUL == "NUL"

TokLen(t) ==
    CASE t = FILL_MAX -> MAX_TOTAL_CHARS
      [] t = FILL_HUGE -> MAX_FILE_SIZE_BYTES + 1
      [] t = NUL -> 1
      [] t = "TICK" -> 1
      [] OTHER -> Len(t)

\* len(s)
RECURSIVE StrLen(_)
StrLen(s) == IF s = <<>> THEN 0 ELSE TokLen(Head(s)) + StrLen(Tail(s))

\* sep.join(parts)
RECURSIVE Join(_, _)
Join(parts, sep) ==
    IF parts = <<>> THEN <<>>
    ELSE IF Len(parts) = 1 THEN parts[1]
    ELSE parts[1] \o sep \o Join(Tail(parts), sep)

\* the probe looking at the first byte only
NulAtStart(text, n) == text # <<>> /\ n > 0 /\ Head(text) = NUL

\* b"\0" in f.read(1024): a null byte among the first PEEK_BYTES bytes
RECURSIVE NulWithin(_, _)
NulWithin(text, n) ==
    IF text = <<>> \/ n <= 0 THEN FALSE
    ELSE IF Head(text) = NUL THEN TRUE
    ELSE NulWithin(Tail(text), n - TokLen(Head(text)))

(* ------------------------------- paths --------------------------------- *)

\* the working directory, the only directory of the model
Cwd == "/w/"

IsAbsolute(p) == p # <<>> /\ Head(p) = Cwd

\* Path(path_str).resolve(): absolute, canonical
Resolve(p) == IF IsAbsolute(p) THEN p ELSE <<Cwd>> \o p

\* the final component: the tokens after the directory
PathName(p) == IF IsAbsolute(p) THEN Tail(p) ELSE p

\* PurePath.suffix: from the last "." of the name, unless that dot is the
\* first or the last character of the name
Suffix(p) ==
    LET name == PathName(p)
        dots == {j \in 1..Len(name) : name[j] = "."}
    IN  IF dots = {} THEN <<>>
        ELSE LET last == CHOOSE j \in dots : \A k \in dots : k <= j
             IN  IF last > 1 /\ last < Len(name)
                 THEN SubSeq(name, last, Len(name)) ELSE <<>>

\* PurePath.with_suffix(suffix): the old suffix replaced by the new one
WithSuffix(p, suffix) == SubSeq(p, 1, Len(p) - Len(Suffix(p))) \o suffix

\* draft_path = target_path.with_suffix(target_path.suffix + ".draft")
DraftPath(target_path) == WithSuffix(target_path, Suffix(target_path) \o <<".", "draft">>)

(* ---------------------------- file system ------------------------------ *)

T_PY == <<Cwd, "t", ".", "p", "y">>
T_DRAFT == <<Cwd, "t", ".", "p", "y", ".", "draft">>
BIG == <<Cwd, "b", "i", "g">>
HUGE == <<Cwd, "h", "u", "g", "e">>
BIN == <<Cwd, "b", "i", "n">>
DIR == <<Cwd, "d", "i", "r">>
GONE == <<Cwd, "g", "o", "n", "e">>
\* a file that is both binary and over MAX_FILE_SIZE_BYTES
BINHUGE == <<Cwd, "b", "h">>

FileNames == {T_PY, T_DRAFT, BIG, HUGE, BIN, BINHUGE, DIR, GONE}

Missing == [kind |-> "missing", text |-> <<>>]

RegularFile(text) == [kind |-> "file", text |-> text]

InitFs ==
    [f \in FileNames |->
        CASE f = T_PY -> RegularFile(<<"a", " ", "=", " ", "1">>)
          [] f = BIG -> RegularFile(<<FILL_MAX>>)
          [] f = HUGE -> RegularFile(<<FILL_HUGE>>)
          [] f = BIN -> RegularFile(<<"a", NUL, "b">>)
          [] f = BINHUGE -> RegularFile(<<NUL, FILL_HUGE>>)
          [] f = DIR -> [kind |-> "dir", text |-> <<>>]
          [] OTHER -> Missing]

Lookup(files, path) == IF path \in DOMAIN files THEN files[path] ELSE Missing

\* path.stat().st_size: the files of the model hold one byte per character
StSize(file) == StrLen(file.text)

(* A file object makes one system call at a time, and another process can   *)
(* write the file between two of them.  read_text is open, fstat, reads up   *)
(* to the end of the file, close: the raw file's readall sizes its buffer    *)
(* from fstat (a failed fstat is passed over), reads as much as the buffer   *)
(* has room for, makes room when it is full, and stops at the first read     *)
(* that returns nothing.  f.read(1024) of a binary file object reads into    *)
(* the object's buffer until it has 1024 bytes or a read returns nothing.    *)

SMALLCHUNK == 8 * 1024

\* the buffer of a binary file object: the block size fstat reports at open
BUFFER_SIZE == 4096

\* the buffer of a binary file object when the fstat of open fails
DEFAULT_BUFFER_SIZE == 8 * 1024

\* the buffer readall starts with, given what fstat reports at offset 0
InitialBufSize(file) == IF StSize(file) > 0 THEN StSize(file) + 1 ELSE SMALLCHUNK

\* the size a full buffer of currentsize bytes grows to
NewBufferSize(currentsize) ==
    LET addend == IF currentsize > 65536 THEN currentsize \div 8 ELSE 256 + currentsize
    IN  currentsize + (IF addend < SMALLCHUNK THEN SMALLCHUNK ELSE addend)

\* the buffer size at the next read: a full buffer is grown first
BufSizeAtRead(bytes_read, bufsize) ==
    IF bytes_read >= bufsize THEN NewBufferSize(bytes_read) ELSE bufsize

\* a read of at most n characters of rest, of whose first token part
\* characters were returned before: the tokens it completes, the characters
\* it returns of the token it stops in, and how many characters it returns
RECURSIVE ReadBytes(_, _, _)
ReadBytes(rest, part, n) ==
    IF rest = <<>> \/ n <= 0 THEN [taken |-> <<>>, part |-> part, count |-> 0]
    ELSE LET left == TokLen(Head(rest)) - part
         IN  IF n < left THEN [taken |-> <<>>, part |-> part + n, count |-> n]
             ELSE LET r == ReadBytes(Tail(rest), 0, n - left)
                  IN  [taken |-> <<Head(rest)>> \o r.taken, part |-> r.part,
                       count |-> left + r.count]

\* one read of at most n characters at the offset the earlier reads have
\* reached
ReadChunk(file, data, part, n) ==
    ReadBytes(SubSeq(file.text, Len(data) + 1, Len(file.text)), part, n)

\* the number of characters the reads have returned so far
BytesRead(l) == StrLen(l.data) + l.part

(* --------------------------- context markup ---------------------------- *)

FileXml(path, content) ==
    <<"<file path='">> \o path \o <<"'>\n">> \o content \o <<"\n</file>">>

ErrorXml(path, reason) ==
    <<"<error file='">> \o path \o <<"'>">> \o reason \o <<"</error>">>

BINARY_REASON == <<"Skipped binary file">>
TOO_LARGE_REASON == <<"File too large (exceeds 512KB)">>
TRUNCATED_REASON == <<"Context limit reached. File truncated.">>

(* ------------------------- _clean_code_block --------------------------- *)

\* the backtick character
TICK == "TICK"

FENCE == <<TICK, TICK, TICK>>

\* content.startswith(FENCE)
StartsWithFence(s) == Len(s) >= 3 /\ SubSeq(s, 1, 3) = FENCE

\* content.endswith(FENCE)
EndsWithFence(s) == Len(s) >= 3 /\ SubSeq(s, Len(s) - 2, Len(s)) = FENCE

\* content.find(c): the 0-based index of the first c, or -1
Find(s, c) ==
    LET hits == {j \in 1..Len(s) : s[j] = c}
    IN  IF hits = {} THEN -1 ELSE (CHOOSE j \in hits : \A k \in hits : j <= k) - 1

\* content[n:]
SliceFrom(s, n) == SubSeq(s, n + 1, Len(s))

CleanCodeBlock(content) ==
    LET c1 == Strip(content)
    IN  IF StartsWithFence(c1)
        THEN LET first_newline == Find(c1, "\n")
                 c2 == IF first_newline # -1 THEN SliceFrom(c1, first_newline + 1) ELSE c1
                 c3 == IF EndsWithFence(c2) THEN SubSeq(c2, 1, Len(c2) - 3) ELSE c2
             IN  Strip(c3)
        ELSE Strip(c1)

(* ------------------------------ inputs --------------------------------- *)

\* what an I/O call raises: <<>> is "no exception"
ErrMsgs == {<<"boom">>}
MayRaise == {<<>>} \cup ErrMsgs

Prompts == {<<" ", "Q", " ">>}
Instructions == {<<"fix">>}
\* a known alias in need of lower() and strip(), and an unknown one
Aliases == {<<" ", "G", "L", "M">>, <<"z">>}

\* the answers of the completion call
Outputs == {<<TICK, TICK, TICK, "p", "y", "\n", "b", "\n", TICK, TICK, TICK>>, <<"c", "d", "\n">>}

\* the paths _read_context_files is called with directly
CtxPaths == {<<"t", ".", "p", "y">>, BIG, HUGE, BIN, BINHUGE, DIR, GONE}
\* the context paths the tool calls of Spec are given
ToolCtx == {<<"t", ".", "p", "y">>, GONE, T_DRAFT}
Targets == {<<"t", ".", "p", "y">>, GONE}

SeqsUpTo(S, n) == UNION {[1..m -> S] : m \in 0..n}

(* ------------------------------ processes ------------------------------ *)

IdleProc ==
    [pc |-> "idle", tool |-> "none",
     \* arguments
     prompt |-> <<>>, model |-> <<>>, context_files |-> <<>>, experts |-> <<>>,
     file_path |-> <<>>, instruction |-> <<>>,
     \* _read_context_files
     file_paths |-> <<>>, i |-> 0, path |-> <<>>, context_parts |-> <<>>,
     total_chars |-> 0,
     \* ask_expert
     resolved_model |-> <<>>, context_xml |-> <<>>, messages |-> <<>>, res |-> <<>>,
     \* compare_experts
     alias |-> <<>>, k |-> 0, results |-> <<>>,
     \* draft_editor
     target_path |-> <<>>, current_content |-> <<>>, additional_context |-> <<>>,
     new_content |-> <<>>, draft_path |-> <<>>,
     \* a file object in use: the tokens its reads have returned so far, the
     \* number of characters they have returned of the long run the offset
     \* stands in, the size of its buffer, and the exception a failed write
     \* of write_text has left pending
     data |-> <<>>, part |-> 0, bufsize |-> 0, exc |-> <<>>,
     \* how the call ended: "returned" with result, or "raised"
     outcome |-> "none", result |-> <<>>,
     \* history of the call: the path index each fragment came from, the
     \* completion attempts, the paths whose size passed the check, the
     \* full-content reads, the file system as the call found it, and the
     \* path indexes at which an I/O call of the reader raised
     part_idx |-> <<>>, attempts |-> <<>>, size_ok |-> {}, full_reads |-> {},
     fs0 |-> <<>>, raised |-> {}]

ProcIds == {1, 2}

\* entry: context_parts = [], total_chars = 0
EnterReader(l, file_paths) ==
    [l EXCEPT !.pc = "rd_for", !.file_paths = file_paths, !.i = 0, !.path = <<>>,
              !.context_parts = <<>>, !.total_chars = 0, !.part_idx = <<>>,
              !.raised = {}]


Set(p, l) == proc' = [proc EXCEPT ![p] = l]

\* the host dispatches a tool call
Dispatch(p, tool, prompt, model, context_files, experts, file_path, instruction) ==
    /\ proc[p].pc = "idle"
    /\ Set(p, [(IF tool = "_read_context_files"
                 THEN EnterReader(IdleProc, context_files) ELSE IdleProc)
                EXCEPT !.pc = (IF tool = "_read_context_files" THEN "rd_for" ELSE tool),
                               !.tool = tool, !.prompt = prompt,
                               !.model = model, !.context_files = context_files,
                               !.experts = experts, !.file_path = file_path,
                               !.instruction = instruction, !.fs0 = fs])
    /\ UNCHANGED <<fs, cb>>

\* a tool call, as the host makes it
Call(p) ==
    /\ proc[p].pc = "idle"
    /\ \E ctx \in SeqsUpTo(ToolCtx, MaxCtx) :
       \/ \E m \in Aliases, q \in Prompts :
             Dispatch(p, "ask_expert", q, m, ctx, <<>>, <<>>, <<>>)
       \/ \E ex \in SeqsUpTo(Aliases, MaxExperts), q \in Prompts :
             Dispatch(p, "compare_experts", q, <<>>, ctx, ex, <<>>, <<>>)
       \/ \E m \in Aliases, t \in Targets, ins \in Instructions :
             Dispatch(p, "draft_editor", <<>>, m, ctx, <<>>, t, ins)

\* a direct call of _read_context_files, as the tests make it
CallReader(p) ==
    /\ proc[p].pc = "idle"
    /\ \E paths \in SeqsUpTo(CtxPaths, MaxPaths) :
       Dispatch(p, "_read_context_files", <<>>, <<>>, paths, <<>>, <<>>, <<>>)

\* the two calls that meet on the draft of t.py when hosts run side by side
CallConc(p) ==
    \/ \E m \in {<<"z">>}, ins \in Instructions :
          Dispatch(p, "draft_editor", <<>>, m, <<>>, <<>>, <<"t", ".", "p", "y">>, ins)
    \/ \E m \in {<<"z">>}, q \in Prompts :
          Dispatch(p, "ask_expert", q, m, <<T_DRAFT>>, <<>>, <<>>, <<>>)

\* the tool call is over and the host has its result
Return(p) ==
    /\ proc[p].pc = "done"
    /\ Set(p, IdleProc)
    /\ UNCHANGED <<fs, cb>>

(* ------------------------- _read_context_files ------------------------- *)

PathStr(l) == l.file_paths[l.i]

AppendPart(l, part) ==
    [l EXCEPT !.context_parts = Append(@, part), !.part_idx = Append(@, l.i)]

\* the except clause leaving the loop instead of going on
RdExceptBreak(l, e) ==
    [AppendPart(l, ErrorXml(PathStr(l), e))
        EXCEPT !.pc = "rd_return", !.raised = @ \cup {l.i}]

\* except Exception as e: an error fragment with the raw path, then the next path
RdExcept(l, e) ==
    [AppendPart(l, ErrorXml(PathStr(l), e))
        EXCEPT !.pc = "rd_for", !.raised = @ \cup {l.i}]

\* for path_str in file_paths
RdFor(p) ==
    LET l == proc[p]
    IN  /\ l.pc = "rd_for"
        /\ IF l.i < Len(l.file_paths)
           THEN Set(p, [l EXCEPT !.i = @ + 1, !.pc = "rd_resolve"])
           ELSE Set(p, [l EXCEPT !.pc = "rd_return"])
        /\ UNCHANGED <<fs, cb>>

\* path = Path(path_str).resolve()
RdResolve(p) ==
    LET l == proc[p]
    IN  /\ l.pc = "rd_resolve"
        /\ \E e \in MayRaise :
              IF e # <<>> THEN Set(p, RdExcept(l, e))
              ELSE Set(p, [l EXCEPT !.path = Resolve(PathStr(l)), !.pc = "rd_exists"])
        /\ UNCHANGED <<fs, cb>>

\* if not path.exists(): continue
RdExists(p) ==
    LET l == proc[p]
    IN  /\ l.pc = "rd_exists"
        /\ \E e \in MayRaise :
              IF e # <<>> THEN Set(p, RdExcept(l, e))
              ELSE IF Lookup(fs, l.path).kind = "missing"
              THEN Set(p, [l EXCEPT !.pc = "rd_for"])
              ELSE Set(p, [l EXCEPT !.pc = "rd_is_file"])
        /\ UNCHANGED <<fs, cb>>

\* if not path.is_file(): continue
RdIsFile(p) ==
    LET l == proc[p]
    IN  /\ l.pc = "rd_is_file"
        /\ \E e \in MayRaise :
              IF e # <<>> THEN Set(p, RdExcept(l, e))
              ELSE IF Lookup(fs, l.path).kind # "file"
              THEN Set(p, [l EXCEPT !.pc = "rd_for"])
              ELSE Set(p, [l EXCEPT !.pc = "rd_peek"])
        /\ UNCHANGED <<fs, cb>>

\* the state of the file object is dropped
CloseFile(l) == [l EXCEPT !.data = <<>>, !.part = 0, !.bufsize = 0]

\* with path.open("rb") as f: the file is opened; its buffer has the block
\* size fstat reports, or DEFAULT_BUFFER_SIZE when that fstat fails
RdPeekOpen(p) ==
    LET l == proc[p]
    IN  /\ l.pc = "rd_peek"
        /\ \E e \in MayRaise :
              IF e # <<>> THEN Set(p, RdExcept(l, e))
              ELSE \E bufsize \in {BUFFER_SIZE, DEFAULT_BUFFER_SIZE} :
                      Set(p, [CloseFile(l) EXCEPT !.bufsize = bufsize,
                                                  !.pc = "rd_peek_read"])
        /\ UNCHANGED <<fs, cb>>

\* f.read(1024): one read into the room left in the buffer; with PEEK_BYTES
\* bytes, or at the end of the file, if b"\0" in ...: the error fragment is
\* appended (a long run holds no null byte)
RdPeek(p) ==
    LET l == proc[p]
        rd == ReadChunk(Lookup(fs, l.path), l.data, l.part, l.bufsize - BytesRead(l))
        r == [l EXCEPT !.data = @ \o rd.taken, !.part = rd.part]
    IN  /\ l.pc = "rd_peek_read"
        /\ \E e \in MayRaise :
              IF e # <<>> THEN Set(p, CloseFile(RdExcept(l, e)))
              ELSE IF rd.count > 0 /\ BytesRead(r) < PEEK_BYTES THEN Set(p, r)
              ELSE IF NulWithin(r.data, PEEK_BYTES)
              THEN Set(p, [AppendPart(r, ErrorXml(l.path, BINARY_REASON))
                              EXCEPT !.pc = "rd_peek_close"])
              ELSE Set(p, [r EXCEPT !.pc = "rd_peek_close"])
        /\ UNCHANGED <<fs, cb>>

\* the with block is left and the file closed: by continue after the error
\* fragment, or to go on to the size check; a close that raises is caught by
\* the except clause in both cases
RdPeekClose(p) ==
    LET l == proc[p]
    IN  /\ l.pc = "rd_peek_close"
        /\ \E e \in MayRaise :
              IF e # <<>> THEN Set(p, CloseFile(RdExcept(l, e)))
              ELSE IF NulWithin(l.data, PEEK_BYTES)
              THEN Set(p, [CloseFile(l) EXCEPT !.pc = "rd_for"])
              ELSE Set(p, [CloseFile(l) EXCEPT !.pc = "rd_stat"])
        /\ UNCHANGED <<fs, cb>>

\* if path.stat().st_size > MAX_FILE_SIZE_BYTES: error fragment, continue
RdStat(p) ==
    LET l == proc[p]
    IN  /\ l.pc = "rd_stat"
        /\ \E e \in MayRaise :
              IF e # <<>> THEN Set(p, RdExcept(l, e))
              ELSE IF StSize(Lookup(fs, l.path)) > MAX_FILE_SIZE_BYTES
              THEN Set(p, [AppendPart(l, ErrorXml(l.path, TOO_LARGE_REASON))
                              EXCEPT !.pc = "rd_for"])
              ELSE Set(p, [l EXCEPT !.size_ok = @ \cup {l.path}, !.pc = "rd_read"])
        /\ UNCHANGED <<fs, cb>>

\* the total context limit check on the content just read
OverLimit(total_chars, content) == total_chars + StrLen(content) > MAX_TOTAL_CHARS

\* content = path.read_text(...): the file is opened
RdOpenText(p) ==
    LET l == proc[p]
    IN  /\ l.pc = "rd_read"
        /\ \E e \in MayRaise :
              IF e # <<>> THEN Set(p, RdExcept(l, e))
              ELSE Set(p, [CloseFile(l) EXCEPT !.pc = "rd_fstat"])
        /\ UNCHANGED <<fs, cb>>

\* read_text: fstat gives the size the buffer is made for; when fstat fails
\* the buffer is SMALLCHUNK and the read goes on
RdFstat(p) ==
    LET l == proc[p]
    IN  /\ l.pc = "rd_fstat"
        /\ \E bufsize \in {InitialBufSize(Lookup(fs, l.path)), SMALLCHUNK} :
              Set(p, [l EXCEPT !.bufsize = bufsize, !.pc = "rd_chunk"])
        /\ UNCHANGED <<fs, cb>>

\* read_text: one read into the room left in the buffer; the read that
\* returns nothing ends the content
RdReadText(p) ==
    LET l == proc[p]
        size == BufSizeAtRead(BytesRead(l), l.bufsize)
        rd == ReadChunk(Lookup(fs, l.path), l.data, l.part, size - BytesRead(l))
    IN  /\ l.pc = "rd_chunk"
        /\ \E e \in MayRaise :
              IF e # <<>> THEN Set(p, CloseFile(RdExcept(l, e)))
              ELSE IF rd.count > 0
              THEN Set(p, [l EXCEPT !.data = @ \o rd.taken, !.part = rd.part,
                                    !.bufsize = size])
              ELSE Set(p, [l EXCEPT !.full_reads = @ \cup {[path |-> l.path,
                                                            checked |-> l.path \in l.size_ok]},
                                    !.pc = "rd_close"])
        /\ UNCHANGED <<fs, cb>>

\* read_text: the file is closed and content returned; the limit check is
\* made and the fragment appended
RdCloseText(p) ==
    LET l == proc[p]
        content == l.data
        file_xml == FileXml(l.path, content)
        r == CloseFile(l)
    IN  /\ l.pc = "rd_close"
        /\ \E e \in MayRaise :
              IF e # <<>> THEN Set(p, CloseFile(RdExcept(l, e)))
              ELSE IF OverLimit(l.total_chars, content)
              THEN Set(p, [AppendPart(r, ErrorXml(l.path, TRUNCATED_REASON))
                              EXCEPT !.pc = "rd_return"])
              ELSE Set(p, [AppendPart(r, file_xml)
                              EXCEPT !.total_chars = @ + StrLen(file_xml),
                                     !.pc = "rd_for"])
        /\ UNCHANGED <<fs, cb>>

\* return "\n\n".join(context_parts), to the tool that called
RdReturn(p) ==
    LET l == proc[p]
        joined == Join(l.context_parts, <<"\n\n">>)
    IN  /\ l.pc = "rd_return"
        /\ IF l.tool = "draft_editor"
           THEN Set(p, [l EXCEPT !.additional_context = joined, !.pc = "dr_completion"])
           ELSE IF l.tool = "_read_context_files"
           THEN Set(p, [l EXCEPT !.outcome = "returned", !.result = joined, !.pc = "done"])
           ELSE Set(p, [l EXCEPT !.context_xml = joined, !.pc = "ask_completion"])
        /\ UNCHANGED <<fs, cb>>

(* ----------------------------- ask_expert ------------------------------ *)

SYSTEM_PREAMBLE ==
    <<"You are an expert software engineer. Below is the relevant project context provided in XML format:\n\n">>

\* the outcomes of litellm.completion: an answer, or an exception
CompletionOutcomes ==
    {[ok |-> TRUE, text |-> o] : o \in Outputs} \cup {[ok |-> FALSE, text |-> e] : e \in ErrMsgs}

Attempt(model, out) == [model |-> model, ok |-> out.ok, text |-> out.text]

\* the system message added even when there is no context
AskMessagesAlwaysSystem(context_xml, prompt) ==
    <<[role |-> "system", content |-> SYSTEM_PREAMBLE \o context_xml],
      [role |-> "user", content |-> prompt]>>

\* the messages list of ask_expert
AskMessages(context_xml, prompt) ==
    (IF context_xml # <<>>
     THEN <<[role |-> "system", content |-> SYSTEM_PREAMBLE \o context_xml]>>
     ELSE <<>>)
    \o <<[role |-> "user", content |-> prompt]>>

\* the return value of ask_expert after the completion call
AskResult(resolved_model, out) ==
    IF out.ok THEN out.text
    ELSE <<"Error using ">> \o resolved_model \o <<": ">> \o out.text

\* an exception no try block of the tool encloses reaches the host
Propagate(l) == [l EXCEPT !.outcome = "raised", !.result = <<>>, !.pc = "done"]

\* resolved_model = _resolve_model_name(model); the print to stderr, which no
\* try block encloses: when it raises, ask_expert raises, and compare_experts
\* with it; else context_xml = _read_context_files(...)
AskExpert(p) ==
    LET l == proc[p]
        r == [l EXCEPT !.resolved_model = ResolveModelName(l.model)]
    IN  /\ l.pc = "ask_expert"
        /\ \E e \in MayRaise :
              IF e # <<>> THEN Set(p, Propagate(r))
              ELSE Set(p, EnterReader(r, l.context_files))
        /\ UNCHANGED <<fs, cb>>

\* the messages are built and litellm.completion is called, once
AskCompletion(p) ==
    LET l == proc[p]
        messages == AskMessages(l.context_xml, l.prompt)
    IN  /\ l.pc = "ask_completion"
        /\ \E out \in CompletionOutcomes :
              Set(p, [l EXCEPT !.messages = messages,
                               !.attempts = Append(@, Attempt(l.resolved_model, out)),
                               !.res = AskResult(l.resolved_model, out),
                               !.pc = "ask_return"])
        /\ UNCHANGED <<fs, cb>>

\* one labelled block of compare_experts
ExpertBlock(alias, res) ==
    <<"## Expert: ">> \o Upper(alias) \o <<"\n\n">> \o res \o <<"\n">>

\* ask_expert returns: to the host, or into the loop of compare_experts, where
\* its frame is gone and results.append(...) runs
AskReturn(p) ==
    LET l == proc[p]
    IN  /\ l.pc = "ask_return"
        /\ IF l.tool = "ask_expert"
           THEN Set(p, [l EXCEPT !.outcome = "returned", !.result = l.res, !.pc = "done"])
           ELSE Set(p, [l EXCEPT !.results = Append(@, ExpertBlock(l.alias, l.res)),
                                 !.pc = "cmp_for", !.model = <<>>, !.res = <<>>,
                                 !.resolved_model = <<>>, !.context_xml = <<>>,
                                 !.messages = <<>>, !.file_paths = <<>>, !.i = 0,
                                 !.path = <<>>, !.context_parts = <<>>,
                                 !.total_chars = 0, !.part_idx = <<>>,
                                 !.raised = {}])
        /\ UNCHANGED <<fs, cb>>

(* --------------------------- compare_experts --------------------------- *)

\* results = []
CompareExperts(p) ==
    LET l == proc[p]
    IN  /\ l.pc = "compare_experts"
        /\ Set(p, [l EXCEPT !.results = <<>>, !.k = 0, !.pc = "cmp_for"])
        /\ UNCHANGED <<fs, cb>>

\* for alias in experts: res = ask_expert(prompt, model=alias, ...);
\* after the loop, return "\n---".join(results)
CmpFor(p) ==
    LET l == proc[p]
    IN  /\ l.pc = "cmp_for"
        /\ IF l.k < Len(l.experts)
           THEN Set(p, [l EXCEPT !.k = @ + 1, !.alias = l.experts[l.k + 1],
                                 !.model = l.experts[l.k + 1], !.pc = "ask_expert"])
           ELSE Set(p, [l EXCEPT !.outcome = "returned",
                                 !.result = Join(l.results, <<"\n---">>),
                                 !.pc = "done"])
        /\ UNCHANGED <<fs, cb>>

(* ----------------------------- draft_editor ---------------------------- *)

Returns(l, text) == [l EXCEPT !.outcome = "returned", !.result = text, !.pc = "done"]

\* resolved_model = ...; target_path = Path(file_path).resolve()
DraftEditor(p) ==
    LET l == proc[p]
    IN  /\ l.pc = "draft_editor"
        /\ \E e \in MayRaise :
              IF e # <<>> THEN Set(p, Propagate(l))
              ELSE Set(p, [l EXCEPT !.resolved_model = ResolveModelName(l.model),
                                    !.target_path = Resolve(l.file_path),
                                    !.pc = "dr_exists"])
        /\ UNCHANGED <<fs, cb>>

\* if not target_path.exists(): return "Error: Target file ... does not exist."
DrExists(p) ==
    LET l == proc[p]
    IN  /\ l.pc = "dr_exists"
        /\ \E e \in MayRaise :
              IF e # <<>> THEN Set(p, Propagate(l))
              ELSE IF Lookup(fs, l.target_path).kind = "missing"
              THEN Set(p, Returns(l, <<"Error: Target file ">> \o l.target_path
                                        \o <<" does not exist.">>))
              ELSE Set(p, [l EXCEPT !.pc = "dr_read"])
        /\ UNCHANGED <<fs, cb>>

\* current_content = target_path.read_text(encoding="utf-8"), in its try
\* block: the file is opened
DrOpenText(p) ==
    LET l == proc[p]
        file == Lookup(fs, l.target_path)
    IN  /\ l.pc = "dr_read"
        /\ \E e \in (IF file.kind = "file" THEN MayRaise ELSE ErrMsgs) :
              IF e # <<>>
              THEN Set(p, Returns(l, <<"Error reading target file: ">> \o e))
              ELSE Set(p, [CloseFile(l) EXCEPT !.pc = "dr_fstat"])
        /\ UNCHANGED <<fs, cb>>

\* read_text: fstat gives the size the buffer is made for; when fstat fails
\* the buffer is SMALLCHUNK and the read goes on
DrFstat(p) ==
    LET l == proc[p]
    IN  /\ l.pc = "dr_fstat"
        /\ \E bufsize \in {InitialBufSize(Lookup(fs, l.target_path)), SMALLCHUNK} :
              Set(p, [l EXCEPT !.bufsize = bufsize, !.pc = "dr_chunk"])
        /\ UNCHANGED <<fs, cb>>

\* read_text: one read into the room left in the buffer; the read that
\* returns nothing ends the content
DrReadText(p) ==
    LET l == proc[p]
        size == BufSizeAtRead(BytesRead(l), l.bufsize)
        rd == ReadChunk(Lookup(fs, l.target_path), l.data, l.part, size - BytesRead(l))
    IN  /\ l.pc = "dr_chunk"
        /\ \E e \in MayRaise :
              IF e # <<>>
              THEN Set(p, Returns(CloseFile(l), <<"Error reading target file: ">> \o e))
              ELSE IF rd.count > 0
              THEN Set(p, [l EXCEPT !.data = @ \o rd.taken, !.part = rd.part,
                                    !.bufsize = size])
              ELSE Set(p, [l EXCEPT !.full_reads = @ \cup {[path |-> l.target_path,
                                                            checked |-> l.target_path \in l.size_ok]},
                                    !.pc = "dr_text_close"])
        /\ UNCHANGED <<fs, cb>>

\* read_text: the file is closed and current_content assigned; then
\* additional_context = _read_context_files(context_files)
DrCloseText(p) ==
    LET l == proc[p]
    IN  /\ l.pc = "dr_text_close"
        /\ \E e \in MayRaise :
              IF e # <<>>
              THEN Set(p, Returns(CloseFile(l), <<"Error reading target file: ">> \o e))
              ELSE Set(p, EnterReader(CloseFile([l EXCEPT !.current_content = l.data]),
                                      l.context_files))
        /\ UNCHANGED <<fs, cb>>

DraftSystemPrompt(additional_context) ==
    <<"You are an elite software engineer. You are rewriting a file to meet user requirements.\n",
      "Output ONLY the new content of the file. Do not output markdown code fences. Do not output conversational text.\n",
      "Additional Context from other files:\n">> \o additional_context

DraftUserPrompt(target_path, current_content, instruction) ==
    <<"--- ORIGINAL FILE: ">> \o PathName(target_path) \o <<" ---\n">>
    \o current_content \o <<"\n", "--- END ORIGINAL FILE ---\n\n", "INSTRUCTION: ">>
    \o instruction
    \o <<"\n\n", "Rewrite the file strictly following the instruction. Maintain style and indentation.">>

\* the error string of ask_expert, used in draft_editor as well
DraftErrorUsingModel(resolved_model, e) ==
    <<"Error using ">> \o resolved_model \o <<": ">> \o e

\* the string draft_editor returns when its second try block catches e
DraftError(resolved_model, e) == <<"Error generating draft: ">> \o e

\* the completion call; on an answer new_content and draft_path are computed
DrCompletion(p) ==
    LET l == proc[p]
        messages == <<[role |-> "system", content |-> DraftSystemPrompt(l.additional_context)],
                      [role |-> "user",
                       content |-> DraftUserPrompt(l.target_path, l.current_content,
                                                   l.instruction)]>>
    IN  /\ l.pc = "dr_completion"
        /\ \E out \in CompletionOutcomes :
              LET r == [l EXCEPT !.messages = messages,
                                 !.attempts = Append(@, Attempt(l.resolved_model, out))]
              IN  IF ~out.ok THEN Set(p, Returns(r, DraftError(l.resolved_model, out.text)))
                  ELSE Set(p, [r EXCEPT !.new_content = CleanCodeBlock(out.text),
                                        !.draft_path = DraftPath(l.target_path),
                                        !.pc = "dr_open"])
        /\ UNCHANGED <<fs, cb>>

\* draft_path.write_text: open(draft_path, "w") creates the file or cuts it to
\* length 0; the data is still in the writer's buffer
DrOpen(p) ==
    LET l == proc[p]
        file == Lookup(fs, l.draft_path)
    IN  /\ l.pc = "dr_open"
        /\ \E e \in (IF file.kind = "dir" THEN ErrMsgs ELSE MayRaise) :
              IF e # <<>>
              THEN /\ Set(p, Returns(l, DraftError(l.resolved_model, e)))
                   /\ fs' = fs
              ELSE /\ Set(p, [l EXCEPT !.pc = "dr_write"])
                   /\ fs' = [fs EXCEPT ![l.draft_path] = RegularFile(<<>>)]
        /\ UNCHANGED cb

\* a write of data at offset 0 of a file holding old
WriteAt(old, data) == data \o SubSeq(old, Len(data) + 1, Len(old))

\* draft_path.write_text: as the file is closed the buffer is flushed, one
\* write at the writer's offset 0; a failed write leaves the file as it is
\* and the data in the buffer
DrWrite(p) ==
    LET l == proc[p]
    IN  /\ l.pc = "dr_write"
        /\ \E e \in MayRaise :
              IF e # <<>>
              THEN /\ Set(p, [l EXCEPT !.exc = e, !.pc = "dr_flush"])
                   /\ fs' = fs
              ELSE /\ Set(p, [l EXCEPT !.pc = "dr_close"])
                   /\ fs' = [fs EXCEPT ![l.draft_path] =
                                RegularFile(WriteAt(fs[l.draft_path].text, l.new_content))]
        /\ UNCHANGED cb

\* write_text: after a failed flush the binary file object, closed in its
\* turn, flushes again; the first exception stays pending, the later one
\* is the one raised
DrFlush(p) ==
    LET l == proc[p]
    IN  /\ l.pc = "dr_flush"
        /\ \E e \in MayRaise :
              IF e # <<>>
              THEN /\ Set(p, [l EXCEPT !.exc = e, !.pc = "dr_close"])
                   /\ fs' = fs
              ELSE /\ Set(p, [l EXCEPT !.pc = "dr_close"])
                   /\ fs' = [fs EXCEPT ![l.draft_path] =
                                RegularFile(WriteAt(fs[l.draft_path].text, l.new_content))]
        /\ UNCHANGED cb

\* write_text: the file is closed; an exception of the flush or of the close
\* is caught by the second try block, else the confirmation is returned
DrClose(p) ==
    LET l == proc[p]
        r == [l EXCEPT !.exc = <<>>]
    IN  /\ l.pc = "dr_close"
        /\ \E e \in MayRaise :
              IF e # <<>> THEN Set(p, Returns(r, DraftError(l.resolved_model, e)))
              ELSE IF l.exc # <<>> THEN Set(p, Returns(r, DraftError(l.resolved_model, l.exc)))
              ELSE Set(p, Returns(r, <<"Draft saved to: ">> \o l.draft_path
                                     \o <<"\nReview it and apply if correct.">>))
        /\ UNCHANGED <<fs, cb>>

(* --------------------------- specifications ---------------------------- *)

CbOff == [pc |-> "off", x |-> <<>>, once |-> <<>>, twice |-> <<>>]

ReaderStep(p) ==
    \/ RdFor(p) \/ RdResolve(p) \/ RdExists(p) \/ RdIsFile(p)
    \/ RdPeekOpen(p) \/ RdPeek(p) \/ RdPeekClose(p) \/ RdStat(p)
    \/ RdOpenText(p) \/ RdFstat(p) \/ RdReadText(p) \/ RdCloseText(p) \/ RdReturn(p)

AskStep(p) == AskExpert(p) \/ AskCompletion(p) \/ AskReturn(p)

CompareStep(p) == CompareExperts(p) \/ CmpFor(p)

DraftStep(p) ==
    \/ DraftEditor(p) \/ DrExists(p)
    \/ DrOpenText(p) \/ DrFstat(p) \/ DrReadText(p) \/ DrCloseText(p)
    \/ DrCompletion(p) \/ DrOpen(p) \/ DrWrite(p) \/ DrFlush(p) \/ DrClose(p)

\* one host, one tool call at a time
Init ==
    /\ fs = InitFs
    /\ proc = [p \in {1} |-> IdleProc]
    /\ cb = CbOff

Next ==
    Call(1) \/ ReaderStep(1) \/ AskStep(1) \/ CompareStep(1) \/ DraftStep(1) \/ Return(1)

Spec == Init /\ [][Next]_vars

\* _read_context_files called on its own
NextRead == CallReader(1) \/ ReaderStep(1) \/ Return(1)

SpecRead == Init /\ [][NextRead]_vars

\* two hosts, each with a tool call of its own, on one file system
InitConc ==
    /\ fs = InitFs
    /\ proc = [p \in ProcIds |-> IdleProc]
    /\ cb = CbOff

NextConc ==
    \E p \in ProcIds :
       CallConc(p) \/ ReaderStep(p) \/ AskStep(p) \/ DraftStep(p) \/ Return(p)

SpecConc == InitConc /\ [][NextConc]_vars

\* _clean_code_block applied once, and again to its own result
CleanChars == {TICK, "\n", " ", "a"}

InitClean ==
    /\ fs = InitFs
    /\ proc = [p \in {1} |-> IdleProc]
    /\ \E x \in SeqsUpTo(CleanChars, MaxLen) :
          cb = [pc |-> "in", x |-> x, once |-> <<>>, twice |-> <<>>]

CleanOnce ==
    /\ cb.pc = "in"
    /\ cb' = [cb EXCEPT !.once = CleanCodeBlock(cb.x), !.pc = "once"]
    /\ UNCHANGED <<fs, proc>>

CleanTwice ==
    /\ cb.pc = "once"
    /\ cb' = [cb EXCEPT !.twice = CleanCodeBlock(cb.once), !.pc = "twice"]
    /\ UNCHANGED <<fs, proc>>

NextClean == CleanOnce \/ CleanTwice

SpecClean == InitClean /\ [][NextClean]_vars

(* ------------------------------- claims -------------------------------- *)

\* sub occurs in s
Contains(s, sub) ==
    \E j \in 0..(Len(s) - Len(sub)) : SubSeq(s, j + 1, j + Len(sub)) = sub

StartsWith(s, prefix) == Len(s) >= Len(prefix) /\ SubSeq(s, 1, Len(prefix)) = prefix

Running == DOMAIN proc

\* C1: the string _read_context_files returns is at most MAX_TOTAL_CHARS
\* characters long, whatever the paths and the files.
C1_BlobWithinCeiling ==
    \A p \in Running :
       (proc[p].tool = "_read_context_files" /\ proc[p].pc = "done")
          => StrLen(proc[p].result) <= MAX_TOTAL_CHARS

\* C2: a tool call never ends with an exception reaching its caller: it ends
\* by returning a string, whichever I/O call failed.
C2_NeverRaises ==
    \A p \in Running : proc[p].pc = "done" => proc[p].outcome = "returned"

\* target path + ".draft"
DraftOf(file_path) == Resolve(file_path) \o <<".", "draft">>

Answered(l) == \E j \in 1..Len(l.attempts) : l.attempts[j].ok

\* C3: during a call of draft_editor no file but the one at target path +
\* ".draft" differs from what the call found (the target included); the file
\* system differs at all only once the completion call has answered; when the
\* call is over and the draft is not what the call found, the draft holds
\* exactly _clean_code_block of the answer; and a call that ends without an
\* answer (target missing, target unreadable, completion failed) leaves every
\* file as it found it.
C3_OnlyTheDraftIsWritten ==
    \A p \in Running :
       LET l == proc[p]
       IN  l.tool = "draft_editor" =>
             /\ \A f \in DOMAIN fs : f # DraftOf(l.file_path) => fs[f] = l.fs0[f]
             /\ fs[Resolve(l.file_path)] = l.fs0[Resolve(l.file_path)]
             /\ fs # l.fs0 => Answered(l)
             /\ (l.pc = "done"
                   /\ Lookup(fs, DraftOf(l.file_path)) # Lookup(l.fs0, DraftOf(l.file_path))) =>
                   Lookup(fs, DraftOf(l.file_path)) =
                      RegularFile(CleanCodeBlock(l.attempts[1].text))
             /\ (l.pc = "done" /\ ~Answered(l)) => fs = l.fs0

CompletionFailed(l) ==
    /\ l.tool = "draft_editor" /\ l.pc = "done"
    /\ l.attempts # <<>> /\ ~l.attempts[1].ok

\* C4 as claimed: when its completion call fails, draft_editor returns a string
\* that names the resolved model and the failure message, and no draft file is
\* written.
C4_ErrorNamesModel ==
    \A p \in Running :
       LET l == proc[p]
       IN  CompletionFailed(l) =>
             /\ l.outcome = "returned"
             /\ Contains(l.result, l.resolved_model)
             /\ Contains(l.result, l.attempts[1].text)
             /\ fs = l.fs0

\* C4, amended: when its completion call fails, draft_editor returns
\* "Error generating draft: " followed by the failure message and nothing
\* else (the resolved model is not put into the string), and no file is
\* written.
C4_ErrorGeneratingDraft ==
    \A p \in Running :
       LET l == proc[p]
       IN  CompletionFailed(l) =>
             /\ l.outcome = "returned"
             /\ l.result = <<"Error generating draft: ">> \o l.attempts[1].text
             /\ fs = l.fs0

\* the completion call of a draft_editor call failed while an older draft exists
C4_Witness ==
    \E p \in Running : CompletionFailed(proc[p]) /\ fs[T_DRAFT].kind = "file"

\* C5: _clean_code_block applied to its own result changes nothing.
C5_Idempotent == cb.pc = "twice" => cb.twice = cb.once

\* the complete strings a draft can hold: the cleaned answers
WholeDrafts == {CleanCodeBlock(o) : o \in Outputs}

\* C6: while two draft_editor calls run on the same target, the draft file is
\* at every moment absent or holds the complete cleaned answer of one call,
\* never an empty or partial string.
C6_DraftWrittenWhole ==
    (\A p \in Running : proc[p].tool = "draft_editor" /\ Running = ProcIds)
       => \/ fs[T_DRAFT].kind = "missing"
          \/ fs[T_DRAFT].text \in WholeDrafts

\* C7: every read of a file's full content comes after a check, in the same
\* tool call, that the file's size is within MAX_FILE_SIZE_BYTES.
C7_SizeCheckedBeforeRead ==
    \A p \in Running : \A r \in proc[p].full_reads : r.checked

\* C8: the completion call of ask_expert is given one or two messages; the
\* last is the user message with the prompt as passed; there are two exactly
\* when the context blob is not empty, and then the first is the system
\* message, the preamble followed by the blob; no other message is a system
\* message; the model given is the resolved alias.
C8_AskMessages ==
    \A p \in Running :
       LET l == proc[p]
           ms == l.messages
           n == Len(ms)
       IN  l.pc = "ask_return" =>
             /\ n \in {1, 2}
             /\ ms[n] = [role |-> "user", content |-> l.prompt]
             /\ l.prompt \in Prompts
             /\ l.context_xml = Join(l.context_parts, <<"\n\n">>)
             /\ (n = 2) <=> (l.context_xml # <<>>)
             /\ n = 2 => ms[1] = [role |-> "system",
                                  content |-> SYSTEM_PREAMBLE \o l.context_xml]
             /\ l.attempts[Len(l.attempts)].model = ResolveModelName(l.model)
             /\ l.model = (IF l.tool = "compare_experts" THEN l.experts[l.k] ELSE l.model)

\* ask_expert has sent a system message with a blob, and the user message
C8_Witness ==
    \E p \in Running :
       /\ proc[p].pc = "ask_return" /\ Len(proc[p].messages) = 2
       /\ proc[p].context_xml # <<>>

\* what block j of compare_experts must be, from alias j and attempt j
ExpectedBlock(alias, attempt) ==
    <<"## Expert: ">> \o Upper(alias) \o <<"\n\n">>
    \o (IF attempt.ok THEN attempt.text
        ELSE <<"Error using ">> \o attempt.model \o <<": ">> \o attempt.text)
    \o <<"\n">>

\* C9: compare_experts ends by returning, having made one completion attempt
\* per alias, in list order, each with that alias resolved; what it returns
\* is the blocks of the aliases in that order, joined by "\n---": block j is
\* headed by alias j in upper case and carries the answer of attempt j, or
\* "Error using <model>: <message>" when attempt j failed.
C9_OneBlockPerAlias ==
    \A p \in Running :
       LET l == proc[p]
       IN  (l.tool = "compare_experts" /\ l.pc = "done") =>
             /\ l.outcome = "returned"
             /\ Len(l.attempts) = Len(l.experts)
             /\ \A j \in 1..Len(l.experts) :
                   l.attempts[j].model = ResolveModelName(l.experts[j])
             /\ l.result = Join([j \in 1..Len(l.experts) |->
                                    ExpectedBlock(l.experts[j], l.attempts[j])],
                                <<"\n---">>)

\* the truncation notice of some path
IsTruncation(part) ==
    /\ Len(part) >= 3 /\ part[1] = "<error file='"
    /\ SubSeq(part, Len(part) - 1, Len(part)) = TRUNCATED_REASON \o <<"</error>">>

\* part is a fragment about the path path_str
IsAbout(part, path_str) ==
    \/ StartsWith(part, <<"<file path='">> \o Resolve(path_str) \o <<"'>\n">>)
    \/ StartsWith(part, <<"<error file='">> \o Resolve(path_str) \o <<"'>">>)
    \/ StartsWith(part, <<"<error file='">> \o path_str \o <<"'>">>)

ReaderOver(l) == l.pc \in {"rd_return", "done"}

\* C10: the fragments of _read_context_files are about paths of the list in
\* list order, the fragments of one path next to each other; a truncation
\* notice is the last
\* fragment, and once it is emitted the reader is over; and the reader is over
\* with paths left unvisited only when its last fragment is the truncation
\* notice of the last path it visited.
C10_InOrderUntilCeiling ==
    \A p \in Running :
       LET l == proc[p]
           n == Len(l.context_parts)
       IN  l.tool = "_read_context_files" =>
             /\ Len(l.part_idx) = n
             /\ \A j \in 1..n :
                   /\ l.part_idx[j] \in 1..l.i
                   /\ IsAbout(l.context_parts[j], l.file_paths[l.part_idx[j]])
                   /\ \A h \in 1..(j - 1) : l.part_idx[h] <= l.part_idx[j]
                   /\ IsTruncation(l.context_parts[j]) =>
                         j = n /\ ReaderOver(l) /\ l.part_idx[j] = l.i
             /\ (ReaderOver(l) /\ l.i < Len(l.file_paths)) =>
                   n > 0 /\ IsTruncation(l.context_parts[n])
             /\ l.pc = "done" => l.result = Join(l.context_parts, <<"\n\n">>)

\* the reader is over after the second of three paths, whose truncation notice
\* is its last fragment; the third path was never visited
C10_Witness ==
    \E p \in Running :
       LET l == proc[p]
       IN  /\ l.tool = "_read_context_files" /\ l.pc = "done"
           /\ Len(l.file_paths) = 3 /\ l.i = 2
           /\ Len(l.context_parts) = 2
           /\ IsTruncation(l.context_parts[2])

\* the file the path at index j names, as the call found it
FileAt(l, j) == Lookup(l.fs0, Resolve(l.file_paths[j]))

\* a null byte among the first PEEK_BYTES bytes of the file
HasEarlyNul(file) ==
    \E h \in 1..Len(file.text) :
       file.text[h] = NUL /\ StrLen(SubSeq(file.text, 1, h - 1)) < PEEK_BYTES

Oversize(file) == StrLen(file.text) > MAX_FILE_SIZE_BYTES

\* the file passes every check of the reader
Eligible(file) == file.kind = "file" /\ ~HasEarlyNul(file) /\ ~Oversize(file)

\* the raw content of the file occurs in some fragment
ContentIn(l, file) ==
    /\ file.kind = "file"
    /\ \E h \in 1..Len(l.context_parts) : Contains(l.context_parts[h], file.text)

\* the fragments appended for the path at index j
PartsOf(l, j) == {h \in 1..Len(l.context_parts) : l.part_idx[h] = j}

\* the path at index j yielded the fragment part and no other
OnlyPart(l, j, part) == \E h \in PartsOf(l, j) : PartsOf(l, j) = {h} /\ l.context_parts[h] = part

\* the reader is through with the path at index j
Visited(l, j) == j < l.i \/ (j = l.i /\ l.pc \in {"rd_for", "rd_return", "done"})

\* the path at index j yielded the fragment first, then the fragment second,
\* and no other
TwoParts(l, j, first, second) ==
    \E h \in PartsOf(l, j) :
       /\ PartsOf(l, j) = {h, h + 1}
       /\ l.context_parts[h] = first /\ l.context_parts[h + 1] = second

\* what the path at index j yields according to the kind of file it names
YieldsByKind(l, j) ==
    LET file == FileAt(l, j)
        path == Resolve(l.file_paths[j])
    IN  /\ (file.kind = "file" /\ HasEarlyNul(file))
              => OnlyPart(l, j, ErrorXml(path, BINARY_REASON))
        /\ (file.kind = "file" /\ ~HasEarlyNul(file) /\ Oversize(file))
              => OnlyPart(l, j, ErrorXml(path, TOO_LARGE_REASON))
        /\ file.kind # "file" => PartsOf(l, j) = {}

\* C11 as claimed: a file's raw content is in the fragments of
\* _read_context_files only if the path names a regular file with no null byte
\* in its first PEEK_BYTES bytes and at most MAX_FILE_SIZE_BYTES bytes; a file
\* with such a null byte yields the binary error fragment, whatever its size; a
\* larger file without one yields the size error fragment; a missing path or a
\* directory yields no fragment at all.
C11_SkippedAsClaimed ==
    \A p \in Running :
       LET l == proc[p]
       IN  l.tool = "_read_context_files" =>
             \A j \in 1..Len(l.file_paths) :
                /\ ContentIn(l, FileAt(l, j)) => Eligible(FileAt(l, j))
                /\ Visited(l, j) => YieldsByKind(l, j)

\* C11, amended: a file's raw content is in the fragments of
\* _read_context_files only if the path names a regular file with no null byte
\* in its first PEEK_BYTES bytes and at most MAX_FILE_SIZE_BYTES bytes; a path
\* on which no call of the reader raised yields the binary error fragment for
\* a file with such a null byte, whatever its size, the size error fragment
\* for a larger file without one, and no fragment at all when it is missing or
\* a directory; a path on which a call raised yields, whatever it names, an
\* error fragment with the path as given and the message of the exception:
\* that fragment alone, or, when the file has such a null byte (the close of
\* the binary check may raise after the binary error fragment is appended),
\* the binary error fragment and then that fragment.
C11_SkippedUnlessRaised ==
    \A p \in Running :
       LET l == proc[p]
       IN  l.tool = "_read_context_files" =>
             /\ l.raised \subseteq 1..l.i
             /\ \A j \in 1..Len(l.file_paths) :
                   /\ ContentIn(l, FileAt(l, j)) => Eligible(FileAt(l, j))
                   /\ (Visited(l, j) /\ j \notin l.raised) => YieldsByKind(l, j)
                   /\ j \in l.raised =>
                         \E e \in ErrMsgs :
                            \/ OnlyPart(l, j, ErrorXml(l.file_paths[j], e))
                            \/ /\ FileAt(l, j).kind = "file" /\ HasEarlyNul(FileAt(l, j))
                               /\ TwoParts(l, j,
                                           ErrorXml(Resolve(l.file_paths[j]), BINARY_REASON),
                                           ErrorXml(l.file_paths[j], e))

\* the reader has returned after a file both binary and oversize, which
\* yielded the binary error fragment, a missing path on which a call raised,
\* which yielded the fragment of the exception, and a binary file the close
\* of whose check raised, which yielded both fragments
C11_Witness ==
    \E p \in Running :
       LET l == proc[p]
       IN  /\ l.tool = "_read_context_files" /\ l.pc = "done"
           /\ \E j \in 1..Len(l.file_paths) :
                 /\ j \notin l.raised
                 /\ HasEarlyNul(FileAt(l, j)) /\ Oversize(FileAt(l, j))
                 /\ OnlyPart(l, j, ErrorXml(Resolve(l.file_paths[j]), BINARY_REASON))
           /\ \E j \in l.raised :
                 /\ FileAt(l, j).kind = "missing"
                 /\ PartsOf(l, j) # {}
           /\ \E j \in l.raised, e \in ErrMsgs :
                 TwoParts(l, j, ErrorXml(Resolve(l.file_paths[j]), BINARY_REASON),
                          ErrorXml(l.file_paths[j], e))

====
